---- MODULE Spec2Model ----
(***************************************************************************)
(* chromeos::BaseMessageLoop (src/chromeos/message_loops/                  *)
(* base_message_loop.cc): task ids, the delayed-task store, the            *)
(* file-descriptor-watch store and the run-loop control surface, on top    *)
(* of base::MessageLoopForIO (the Timer and Readiness primitives).         *)
(*                                                                         *)
(* A closure is modelled by the serial number of the registration that     *)
(* passed it (1, 2, ...); the null Closure() is 0.  A callback is foreign  *)
(* code: while it runs (cur.kind # "none") it may call PostDelayedTask,    *)
(* WatchFileDescriptor, CancelTask and BreakLoop any number of times, so   *)
(* the two handlers that run a callback are cut at closure.Run() into the  *)
(* part before it and the part after it.                                   *)
(***************************************************************************)
EXTENDS Integers, Sequences, FiniteSets, TLC

\* ---- bounds of the model ------------------------------------------------
\* TaskId is an unsigned integer of IdBits bits; last_id_ wraps modulo 2^IdBits.
IdBits == 2
\* Registrations accepted over a run (the serial numbers of closures).
MaxTasks == 2
\* Invocations of one closure over a run (a persistent watch may fire forever).
MaxInvoke == 2

IdMod == 2 ^ IdBits
TaskIds == 0 .. (IdMod - 1)
Serials == 1 .. MaxTasks

\* ---- program constants --------------------------------------------------
kTaskIdNull == 0
NullClosure == 0
kWatchRead == 0
kWatchWrite == 1
\* A WatchMode value that is neither kWatchRead nor kWatchWrite (the default: branch).
BadWatchMode == 2
\* A valid descriptor and an invalid one (fd < 0).
GoodFd == 3
BadFd == -1

\* The inputs of WatchFileDescriptor: <<fd, mode, persistent, scheduled>>, scheduled
\* being the answer of base_loop_->WatchFileDescriptor (not asked for a rejected input).
WatchInputs ==
  ({GoodFd} \X {kWatchRead, kWatchWrite} \X BOOLEAN \X BOOLEAN)
    \cup {<<BadFd, kWatchRead, FALSE, TRUE>>, <<GoodFd, BadWatchMode, TRUE, TRUE>>}

VARIABLES
  last_id_,         \* BaseMessageLoop::last_id_
  delayed_tasks_,   \* std::map<TaskId, DelayedTask>: id -> closure (0 = null)
  io_tasks_,        \* std::map<TaskId, IOTask>: id -> [persistent, closure]
  run_once_,        \* BaseMessageLoop::run_once_
  timers,           \* base loop: OnRanPostedTask notifications accepted, not yet delivered
  subs,             \* base loop: active FileDescriptorWatcher subscriptions, id -> fd
  ready,            \* environment: the descriptors that are ready now for their watchers
  loop,             \* the call driving the base loop, and how: [kind, drive]
  quit,             \* base loop: QuitNow() was requested in the current drive call
  cur,              \* the handler whose closure is running: [kind, id, closure, persistent,
                    \*   since (history: the registrations accepted before it started)]
  ub,               \* undefined behaviour was executed (a deref of end(), a destroyed IOTask)
  tasks,            \* history: serial -> kind of every accepted registration
  invoked,          \* history: serial -> number of times the closure was run
  cancelOK,         \* history: serials for which CancelTask returned true
  call,             \* history of the RunOnce call in progress: [may_block, ran, dlv, dirty]
  ret,              \* the operation taken by the last step, its inputs and its result
  alive,            \* the BaseMessageLoop object exists (~BaseMessageLoop has not run)
  report,           \* what ~BaseMessageLoop logged: [lazily_deleted, leaked_io, leaked_delayed]
  fs,               \* brillo/file_utils.cc: the file system, name -> what is at that name
  fcall,            \* brillo/file_utils.cc: the call in progress and its result
  sig               \* chromeos::AsynchronousSignalHandler and its test fixture

progVars == <<last_id_, delayed_tasks_, io_tasks_, run_once_>>
baseVars == <<timers, subs, loop, quit>>
histVars == <<tasks, invoked, cancelOK, call>>
vars == <<last_id_, delayed_tasks_, io_tasks_, run_once_, timers, subs, ready, loop,
          quit, cur, ub, tasks, invoked, cancelOK, call, ret, alive, report, fs, fcall, sig>>
endVars == <<alive, report>>
\* The message loop's variables, and those of the file utilities and the signal handler.
loopVars == <<last_id_, delayed_tasks_, io_tasks_, run_once_, timers, subs, ready, loop,
              quit, cur, ub, tasks, invoked, cancelOK, call, ret, alive, report>>
utilVars == <<fs, fcall, sig>>

NoHandler == [kind |-> "none", id |-> 0, closure |-> 0, persistent |-> FALSE, since |-> 0]
IdleLoop == [kind |-> "idle", drive |-> "none"]
NoRet == [op |-> "none"]
NoReport == [lazily_deleted |-> 0, leaked_io |-> {}, leaked_delayed |-> {}]
NoCall == [may_block |-> FALSE, ran |-> <<>>, dlv |-> <<>>, dirty |-> FALSE]

\* ---- helpers ------------------------------------------------------------
\* An empty std::map.
EmptyMap == [x \in {} |-> 0]

\* f with key k removed (std::map::erase).
Erase(f, k) == [x \in (DOMAIN f) \ {k} |-> f[x]]

\* f with k bound to v (std::map::emplace of a key that is absent).
Emplace(f, k, v) == [x \in (DOMAIN f) \cup {k} |-> IF x = k THEN v ELSE f[x]]

\* The keys NextTaskId() looks up: both stores.
UsedIds == (DOMAIN delayed_tasks_) \cup (DOMAIN io_tasks_)

\* The do/while of NextTaskId() leaves: some non-zero id is in neither store.
FreeIdExists == \E i \in TaskIds : i # kTaskIdNull /\ i \notin UsedIds

\* (mutant) NextTaskId without its do/while: the incremented counter, whatever it is.
NextTaskIdNoRetry(last, used) == (last + 1) % IdMod

\* BaseMessageLoop::NextTaskId: do { res = ++last_id_; } while (!res || found in a store).
RECURSIVE NextTaskIdFrom(_, _)
NextTaskIdFrom(last, used) ==
  LET res == (last + 1) % IdMod
  IN  IF res = kTaskIdNull \/ res \in used THEN NextTaskIdFrom(res, used) ELSE res

NextTaskId == NextTaskIdFrom(last_id_, UsedIds)

\* The API is called by the owner of the loop between drive calls, or by a running closure.
CanCall == alive /\ (cur.kind # "none" \/ loop.kind = "idle")

\* History of the RunOnce call in progress: b says the step changed a store or a subscription.
Touch(b) == IF loop.kind = "RunOnce" THEN [call EXCEPT !.dirty = @ \/ b] ELSE call

\* ---- Init ---------------------------------------------------------------
\* No file utility is in use.
NoFs == EmptyMap
NoFileCall == [pc |-> "unused"]
\* No signal handler is in use.
NoSig == [pc |-> "unused"]

\* The message loop after its constructor (lines 18-20).
LoopInit ==
  /\ last_id_ = kTaskIdNull
  /\ delayed_tasks_ = EmptyMap
  /\ io_tasks_ = EmptyMap
  /\ run_once_ = FALSE
  /\ timers = {}
  /\ subs = EmptyMap
  /\ ready = {}
  /\ loop = IdleLoop
  /\ quit = FALSE
  /\ cur = NoHandler
  /\ ub = FALSE
  /\ tasks = <<>>
  /\ invoked = [s \in Serials |-> 0]
  /\ cancelOK = {}
  /\ call = NoCall
  /\ ret = NoRet
  /\ alive = TRUE
  /\ report = NoReport

Init ==
  /\ LoopInit
  /\ fs = NoFs
  /\ fcall = NoFileCall
  /\ sig = NoSig

\* ---- BaseMessageLoop::PostDelayedTask -----------------------------------
\* (mutant) PostDelayedTask that keeps the record of a task the base loop accepted
\* without the notification being armed.
PostOutcomeNoTimer(base_scheduled, task) ==
  IF ~base_scheduled
    THEN [res |-> kTaskIdNull, last |-> NextTaskId, delayed |-> delayed_tasks_,
          timers |-> timers]
    ELSE [res |-> NextTaskId, last |-> NextTaskId,
          delayed |-> Emplace(delayed_tasks_, NextTaskId, task), timers |-> timers]

\* The new values PostDelayedTask computes; base_scheduled: what
\* base_loop_->task_runner()->PostDelayedTask answers (it keeps the notification
\* bound to task_id exactly when it answers true).
PostOutcome(base_scheduled, task) ==
  LET task_id == NextTaskId
  IN  IF ~base_scheduled
        THEN [res |-> kTaskIdNull, last |-> task_id, delayed |-> delayed_tasks_,
              timers |-> timers]
        ELSE [res |-> task_id, last |-> task_id,
              delayed |-> Emplace(delayed_tasks_, task_id, task),
              timers |-> timers \cup
                           {[task_id |-> task_id, armedFor |-> task, due |-> FALSE]}]

PostDelayedTask(base_scheduled) ==
  /\ CanCall
  /\ FreeIdExists
  /\ base_scheduled => Len(tasks) < MaxTasks
  /\ LET o == PostOutcome(base_scheduled, Len(tasks) + 1)
     IN  /\ last_id_' = o.last
         /\ delayed_tasks_' = o.delayed
         /\ timers' = o.timers
         /\ tasks' = IF o.res # kTaskIdNull
                       THEN Append(tasks, "delayed")
                       ELSE tasks
         /\ call' = Touch(o.delayed # delayed_tasks_)
         /\ ret' = [op |-> "PostDelayedTask", res |-> o.res,
                    why |-> IF ~base_scheduled THEN "refused" ELSE "accepted"]
  /\ UNCHANGED <<io_tasks_, run_once_, subs, ready, loop, quit, cur, ub,
                 invoked, cancelOK>>
  /\ UNCHANGED <<endVars, utilVars>>

\* ---- BaseMessageLoop::WatchFileDescriptor -------------------------------
\* (mutant) An erase of an IOTask whose FileDescriptorWatcher goes on watching.
EraseIOTaskKeepsWatching(io, sb, id) == [io |-> Erase(io, id), subs |-> sb]

\* What io_tasks_.erase(id) does to the store and, through ~FileDescriptorWatcher,
\* to the subscription of the erased IOTask.
EraseIOTask(io, sb, id) == [io |-> Erase(io, id), subs |-> Erase(sb, id)]

\* (mutant) WatchFileDescriptor without the erase of line 109.
WatchOutcomeNoErase(fd, mode, persistent, scheduled, task) ==
  IF fd < 0 \/ mode \notin {kWatchRead, kWatchWrite}
    THEN [res |-> kTaskIdNull, last |-> last_id_, io |-> io_tasks_, subs |-> subs]
    ELSE [res |-> IF scheduled THEN NextTaskId ELSE kTaskIdNull,
          last |-> NextTaskId,
          io |-> Emplace(io_tasks_, NextTaskId,
                         [persistent |-> persistent, closure |-> task]),
          subs |-> IF scheduled THEN Emplace(subs, NextTaskId, fd) ELSE subs]

\* The new values WatchFileDescriptor computes; scheduled: what
\* base_loop_->WatchFileDescriptor answers.
WatchOutcome(fd, mode, persistent, scheduled, task) ==
  LET same == [res |-> kTaskIdNull, last |-> last_id_, io |-> io_tasks_, subs |-> subs]
  IN  IF fd < 0 THEN same
      ELSE IF mode \notin {kWatchRead, kWatchWrite} THEN same
      ELSE LET task_id == NextTaskId
               emplaced == Emplace(io_tasks_, task_id,
                                   [persistent |-> persistent, closure |-> task])
           IN  IF ~scheduled
                 THEN LET e == EraseIOTask(emplaced, subs, task_id)
                      IN  [res |-> kTaskIdNull, last |-> task_id, io |-> e.io,
                           subs |-> e.subs]
                 ELSE [res |-> task_id, last |-> task_id, io |-> emplaced,
                       subs |-> Emplace(subs, task_id, fd)]

WatchFileDescriptor(fd, mode, persistent, scheduled) ==
  /\ CanCall
  /\ (fd >= 0 /\ mode \in {kWatchRead, kWatchWrite}) =>
        (FreeIdExists /\ (scheduled => Len(tasks) < MaxTasks))
  /\ LET o == WatchOutcome(fd, mode, persistent, scheduled, Len(tasks) + 1)
     IN  /\ last_id_' = o.last
         /\ io_tasks_' = o.io
         /\ subs' = o.subs
         /\ tasks' = IF o.res # kTaskIdNull
                       THEN Append(tasks, IF persistent THEN "persistent" ELSE "oneshot")
                       ELSE tasks
         /\ call' = Touch(o.io # io_tasks_ \/ o.subs # subs)
         /\ ret' = [op |-> "WatchFileDescriptor", res |-> o.res,
                    why |-> IF fd < 0 THEN "fd"
                            ELSE IF mode \notin {kWatchRead, kWatchWrite} THEN "mode"
                            ELSE IF ~scheduled THEN "refused" ELSE "accepted"]
  /\ UNCHANGED <<delayed_tasks_, run_once_, timers, ready, loop, quit, cur, ub,
                 invoked, cancelOK>>
  /\ UNCHANGED <<endVars, utilVars>>

\* ---- BaseMessageLoop::CancelTask ----------------------------------------
\* (mutant) CancelTask that answers true for a delayed task and keeps its closure.
CancelOutcomeKeepsClosure(task_id) ==
  IF task_id # kTaskIdNull /\ task_id \in DOMAIN delayed_tasks_
       /\ delayed_tasks_[task_id] # NullClosure
    THEN [res |-> TRUE, delayed |-> delayed_tasks_, io |-> io_tasks_, subs |-> subs,
          closure |-> delayed_tasks_[task_id]]
    ELSE [res |-> FALSE, delayed |-> delayed_tasks_, io |-> io_tasks_, subs |-> subs,
          closure |-> NullClosure]

\* (mutant) CancelTask that answers true for a watch and leaves its record in place.
CancelOutcomeKeepsWatch(task_id) ==
  IF task_id # kTaskIdNull /\ task_id \notin DOMAIN delayed_tasks_
       /\ task_id \in DOMAIN io_tasks_
    THEN [res |-> TRUE, delayed |-> delayed_tasks_, io |-> io_tasks_, subs |-> subs,
          closure |-> io_tasks_[task_id].closure]
    ELSE [res |-> FALSE, delayed |-> delayed_tasks_, io |-> io_tasks_, subs |-> subs,
          closure |-> NullClosure]

\* (mutant) CancelTask without the is_null() test of line 136.
CancelOutcomeNoNullTest(task_id) ==
  IF task_id # kTaskIdNull /\ task_id \in DOMAIN delayed_tasks_
    THEN [res |-> TRUE, delayed |-> [delayed_tasks_ EXCEPT ![task_id] = NullClosure],
          io |-> io_tasks_, subs |-> subs, closure |-> delayed_tasks_[task_id]]
    ELSE [res |-> FALSE, delayed |-> delayed_tasks_, io |-> io_tasks_, subs |-> subs,
          closure |-> NullClosure]

\* (mutant) CancelTask that erases the record of a delayed task instead of resetting
\* its closure (line 144), the notification staying with the base loop.
CancelOutcomeErasesDelayed(task_id) ==
  IF task_id # kTaskIdNull /\ task_id \in DOMAIN delayed_tasks_
       /\ delayed_tasks_[task_id] # NullClosure
    THEN [res |-> TRUE, delayed |-> Erase(delayed_tasks_, task_id), io |-> io_tasks_,
          subs |-> subs, closure |-> delayed_tasks_[task_id]]
  ELSE IF task_id # kTaskIdNull /\ task_id \notin DOMAIN delayed_tasks_
            /\ task_id \in DOMAIN io_tasks_
    THEN [res |-> TRUE, delayed |-> delayed_tasks_, io |-> Erase(io_tasks_, task_id),
          subs |-> Erase(subs, task_id), closure |-> io_tasks_[task_id].closure]
  ELSE [res |-> FALSE, delayed |-> delayed_tasks_, io |-> io_tasks_, subs |-> subs,
        closure |-> NullClosure]

\* (mutant) CancelTask whose erase of a watch takes every watch with it.
CancelOutcomeErasesAll(task_id) ==
  IF task_id # kTaskIdNull /\ task_id \notin DOMAIN delayed_tasks_
       /\ task_id \in DOMAIN io_tasks_
    THEN [res |-> TRUE, delayed |-> delayed_tasks_, io |-> EmptyMap, subs |-> EmptyMap,
          closure |-> io_tasks_[task_id].closure]
  ELSE IF task_id # kTaskIdNull /\ task_id \in DOMAIN delayed_tasks_
            /\ delayed_tasks_[task_id] # NullClosure
    THEN [res |-> TRUE, delayed |-> [delayed_tasks_ EXCEPT ![task_id] = NullClosure],
          io |-> io_tasks_, subs |-> subs, closure |-> delayed_tasks_[task_id]]
  ELSE [res |-> FALSE, delayed |-> delayed_tasks_, io |-> io_tasks_, subs |-> subs,
        closure |-> NullClosure]

\* The new values CancelTask computes; closure: the closure it released (0: none).
CancelOutcome(task_id) ==
  LET same == [res |-> FALSE, delayed |-> delayed_tasks_, io |-> io_tasks_,
               subs |-> subs, closure |-> NullClosure]
  IN  IF task_id = kTaskIdNull THEN same
      ELSE IF task_id \notin DOMAIN delayed_tasks_
        THEN IF task_id \notin DOMAIN io_tasks_ THEN same
             ELSE LET e == EraseIOTask(io_tasks_, subs, task_id)
                  IN  [res |-> TRUE, delayed |-> delayed_tasks_, io |-> e.io,
                       subs |-> e.subs, closure |-> io_tasks_[task_id].closure]
      ELSE IF delayed_tasks_[task_id] = NullClosure THEN same
      ELSE [res |-> TRUE,
            delayed |-> [delayed_tasks_ EXCEPT ![task_id] = NullClosure],
            io |-> io_tasks_, subs |-> subs, closure |-> delayed_tasks_[task_id]]

CancelTask(task_id) ==
  /\ CanCall
  /\ LET o == CancelOutcome(task_id)
     IN  /\ delayed_tasks_' = o.delayed
         /\ io_tasks_' = o.io
         /\ subs' = o.subs
         /\ cancelOK' = IF o.res THEN cancelOK \cup {o.closure} ELSE cancelOK
         /\ call' = Touch(o.delayed # delayed_tasks_ \/ o.io # io_tasks_ \/ o.subs # subs)
         /\ ret' = [op |-> "CancelTask", task_id |-> task_id, res |-> o.res,
                    closure |-> o.closure]
  /\ UNCHANGED <<last_id_, run_once_, timers, ready, loop, quit, cur, ub, tasks, invoked>>
  /\ UNCHANGED <<endVars, utilVars>>

\* ---- BaseMessageLoop::BreakLoop -----------------------------------------
\* base_loop_->QuitNow(), called by a running closure.
BreakLoop ==
  /\ cur.kind # "none"
  /\ quit' = TRUE
  /\ ret' = [op |-> "BreakLoop"]
  /\ UNCHANGED <<progVars, timers, subs, ready, loop, cur, ub, histVars>>
  /\ UNCHANGED <<endVars, utilVars>>

\* ---- the base loop's drive calls ----------------------------------------
\* (mutant) A base loop that goes on handing out work after QuitNow().
CanDispatchAfterQuit == loop.kind # "idle" /\ cur.kind = "none"

\* The base loop hands out work only inside a drive call, between two handlers, and
\* not after QuitNow().
CanDispatch == loop.kind # "idle" /\ cur.kind = "none" /\ ~quit

\* The timer notifications the base loop can deliver now.
DueTimers == {n \in timers : n.due}

\* The subscriptions whose descriptor is ready now (the IOTask the base loop would call).
ReadySubs == {id \in DOMAIN subs : subs[id] \in ready}

\* Whether the closure of record id may still be run within the model's bound.
WithinBound(closure) == closure \in Serials => invoked[closure] < MaxInvoke

DeliverableTimers ==
  {n \in DueTimers : n.task_id \in DOMAIN delayed_tasks_
                       => WithinBound(delayed_tasks_[n.task_id])}

DeliverableSubs ==
  {id \in ReadySubs : id \in DOMAIN io_tasks_ => WithinBound(io_tasks_[id].closure)}

ReadyWork == DeliverableTimers # {} \/ DeliverableSubs # {}

\* History: the closure was run.
Ran(closure) == [invoked EXCEPT ![closure] = @ + 1]

\* History of the RunOnce call in progress: an event armed for serial a was delivered
\* and closure c (0: none) was run.
Logged(a, c, b) ==
  IF loop.kind = "RunOnce"
    THEN [may_block |-> call.may_block,
          ran |-> IF c = NullClosure THEN call.ran ELSE Append(call.ran, c),
          dlv |-> Append(call.dlv, a), dirty |-> call.dirty \/ b]
    ELSE call

\* ---- BaseMessageLoop::OnRanPostedTask -----------------------------------
\* (mutant) OnRanPostedTask that runs the closure in place, without moving it out of
\* the record first.
FireOutcomeInPlace(task_id) ==
  IF delayed_tasks_[task_id] # NullClosure
    THEN [run |-> delayed_tasks_[task_id], delayed |-> delayed_tasks_,
          run_once |-> run_once_, quit |-> quit]
    ELSE [run |-> NullClosure, delayed |-> Erase(delayed_tasks_, task_id),
          run_once |-> run_once_, quit |-> quit]

\* (mutant) OnRanPostedTask with the test of run_once_ (lines 197-200) after the if of
\* line 185 instead of inside it: a null closure counts as the one callback.
FireOutcomeCountsCanceled(task_id) ==
  IF delayed_tasks_[task_id] # NullClosure
    THEN [run |-> delayed_tasks_[task_id],
          delayed |-> [delayed_tasks_ EXCEPT ![task_id] = NullClosure],
          run_once |-> run_once_, quit |-> quit]
    ELSE [run |-> NullClosure, delayed |-> Erase(delayed_tasks_, task_id),
          run_once |-> IF run_once_ THEN FALSE ELSE run_once_,
          quit |-> IF run_once_ THEN TRUE ELSE quit]

\* Lines 183-193, up to closure.Run(), and for a null closure the whole handler
\* (lines 183-185 and 202; lines 197-200 are inside the if and are skipped):
\* run: the closure to run (0: none); delayed: the store when the closure starts;
\* run_once, quit: the flag and the base loop's stop request at that point.
FireOutcome(task_id) ==
  IF delayed_tasks_[task_id] # NullClosure
    THEN [run |-> delayed_tasks_[task_id],
          delayed |-> [delayed_tasks_ EXCEPT ![task_id] = NullClosure],
          run_once |-> run_once_, quit |-> quit]
    ELSE [run |-> NullClosure, delayed |-> Erase(delayed_tasks_, task_id),
          run_once |-> run_once_, quit |-> quit]

OnRanPostedTask(n) ==
  /\ CanDispatch
  /\ n \in DeliverableTimers
  /\ timers' = timers \ {n}
  /\ IF n.task_id \notin DOMAIN delayed_tasks_
       THEN /\ ub' = TRUE
            /\ call' = Logged(n.armedFor, NullClosure, FALSE)
            /\ ret' = [op |-> "OnRanPostedTask", task_id |-> n.task_id]
            /\ UNCHANGED <<delayed_tasks_, run_once_, quit, cur, invoked>>
       ELSE LET o == FireOutcome(n.task_id)
            IN  /\ delayed_tasks_' = o.delayed
                /\ run_once_' = o.run_once
                /\ quit' = o.quit
                /\ cur' = IF o.run # NullClosure
                            THEN [kind |-> "delayed", id |-> n.task_id,
                                  closure |-> o.run, persistent |-> FALSE,
                                  since |-> Len(tasks)]
                            ELSE cur
                /\ invoked' = IF o.run # NullClosure THEN Ran(o.run) ELSE invoked
                /\ call' = Logged(n.armedFor, o.run, TRUE)
                /\ ret' = [op |-> "OnRanPostedTask", task_id |-> n.task_id]
                /\ ub' = ub
  /\ UNCHANGED <<last_id_, io_tasks_, subs, ready, loop, tasks, cancelOK>>
  /\ UNCHANGED <<endVars, utilVars>>

\* (mutant) The tail of OnRanPostedTask without the reset of run_once_ of line 198.
FireTailOutcomeKeepsFlag(task_id) ==
  [run_once |-> run_once_,
   quit |-> IF run_once_ THEN TRUE ELSE quit,
   delayed |-> Erase(delayed_tasks_, task_id)]

\* (mutant) The tail of OnRanPostedTask without the erase of line 202.
FireTailOutcomeNoErase(task_id) ==
  [run_once |-> IF run_once_ THEN FALSE ELSE run_once_,
   quit |-> IF run_once_ THEN TRUE ELSE quit,
   delayed |-> delayed_tasks_]

\* Lines 195-202, after closure.Run() returned: [run_once, quit, delayed].
FireTailOutcome(task_id) ==
  [run_once |-> IF run_once_ THEN FALSE ELSE run_once_,
   quit |-> IF run_once_ THEN TRUE ELSE quit,
   delayed |-> Erase(delayed_tasks_, task_id)]

OnRanPostedTaskReturn ==
  /\ cur.kind = "delayed"
  /\ LET o == FireTailOutcome(cur.id)
     IN  /\ run_once_' = o.run_once
         /\ quit' = o.quit
         /\ delayed_tasks_' = o.delayed
         /\ call' = Touch(o.delayed # delayed_tasks_)
  /\ cur' = NoHandler
  /\ ret' = [op |-> "OnRanPostedTaskReturn"]
  /\ UNCHANGED <<last_id_, io_tasks_, timers, subs, ready, loop, ub, tasks, invoked,
                 cancelOK>>
  /\ UNCHANGED <<endVars, utilVars>>

\* ---- BaseMessageLoop::IOTask::OnFileReady -------------------------------
\* (mutant) OnFileReady that runs the closure of a one-shot watch like a persistent one's,
\* without erasing the record.
ReadyOutcomeNoErase(task_id) ==
  [run |-> io_tasks_[task_id].closure, io |-> io_tasks_, subs |-> subs]

\* (mutant) OnFileReady whose erase of a one-shot record leaves the subscription behind.
ReadyOutcomeKeepsSub(task_id) ==
  IF io_tasks_[task_id].persistent
    THEN [run |-> io_tasks_[task_id].closure, io |-> io_tasks_, subs |-> subs]
    ELSE [run |-> io_tasks_[task_id].closure, io |-> Erase(io_tasks_, task_id),
          subs |-> subs]

\* Lines 224-241, up to the Run() of the closure: the closure run and the store and
\* subscriptions when it starts.
ReadyOutcome(task_id) ==
  IF io_tasks_[task_id].persistent
    THEN [run |-> io_tasks_[task_id].closure, io |-> io_tasks_, subs |-> subs]
    ELSE LET e == EraseIOTask(io_tasks_, subs, task_id)
         IN  [run |-> io_tasks_[task_id].closure, io |-> e.io, subs |-> e.subs]

OnFileReady(task_id) ==
  /\ CanDispatch
  /\ task_id \in DeliverableSubs
  /\ IF task_id \notin DOMAIN io_tasks_
       THEN /\ ub' = TRUE
            /\ call' = Logged(0, NullClosure, FALSE)
            /\ ret' = [op |-> "OnFileReady", task_id |-> task_id]
            /\ UNCHANGED <<io_tasks_, subs, cur, invoked>>
       ELSE LET o == ReadyOutcome(task_id)
            IN  /\ io_tasks_' = o.io
                /\ subs' = o.subs
                /\ cur' = [kind |-> "io", id |-> task_id, closure |-> o.run,
                           persistent |-> io_tasks_[task_id].persistent,
                           since |-> Len(tasks)]
                /\ invoked' = Ran(o.run)
                /\ call' = Logged(io_tasks_[task_id].closure, o.run,
                                  o.io # io_tasks_ \/ o.subs # subs)
                /\ ret' = [op |-> "OnFileReady", task_id |-> task_id]
                /\ ub' = ub
  /\ UNCHANGED <<last_id_, delayed_tasks_, run_once_, timers, ready, loop, quit, tasks,
                 cancelOK>>
  /\ UNCHANGED <<endVars, utilVars>>

\* Lines 244-247, after the closure returned: [run_once, quit].
ReadyTailOutcome ==
  [run_once |-> IF run_once_ THEN FALSE ELSE run_once_,
   quit |-> IF run_once_ THEN TRUE ELSE quit]

OnFileReadyReturn ==
  /\ cur.kind = "io"
  /\ run_once_' = ReadyTailOutcome.run_once
  /\ quit' = ReadyTailOutcome.quit
  /\ cur' = NoHandler
  /\ ret' = [op |-> "OnFileReadyReturn"]
  /\ UNCHANGED <<last_id_, delayed_tasks_, io_tasks_, timers, subs, ready, loop, ub,
                 histVars>>
  /\ UNCHANGED <<endVars, utilVars>>

\* ---- BaseMessageLoop::RunOnce -------------------------------------------
\* (mutant) RunOnce with the test of may_block inverted.
BaseDriveInverted(may_block) == IF may_block THEN "RunUntilIdle" ELSE "Run"

\* Lines 151-154: the drive call of the base loop RunOnce makes.
BaseDrive(may_block) == IF ~may_block THEN "RunUntilIdle" ELSE "Run"

\* Lines 150-154: the flag is set and the base loop is entered.
RunOnce(may_block) ==
  /\ alive
  /\ loop.kind = "idle"
  /\ cur.kind = "none"
  /\ run_once_' = TRUE
  /\ loop' = [kind |-> "RunOnce", drive |-> BaseDrive(may_block)]
  /\ quit' = FALSE
  /\ call' = [NoCall EXCEPT !.may_block = may_block]
  /\ ret' = [op |-> "RunOnce", may_block |-> may_block]
  /\ UNCHANGED <<last_id_, delayed_tasks_, io_tasks_, timers, subs, ready, cur, ub,
                 tasks, invoked, cancelOK>>
  /\ UNCHANGED <<endVars, utilVars>>

\* base_loop_->Run() returns after QuitNow(); base_loop_->RunUntilIdle() also when no
\* work is ready.
DriveReturns == cur.kind = "none" /\ (quit \/ (loop.drive = "RunUntilIdle" /\ ~ReadyWork))

\* (mutant) The end of RunOnce without the reset of run_once_ of line 159.
RunOnceOutcomeKeepsFlag == [res |-> ~run_once_, run_once |-> run_once_]

\* Lines 155-160: [res, run_once].
RunOnceOutcome ==
  IF ~run_once_ THEN [res |-> TRUE, run_once |-> run_once_]
  ELSE [res |-> FALSE, run_once |-> FALSE]

RunOnceReturn ==
  /\ loop.kind = "RunOnce"
  /\ DriveReturns
  /\ run_once_' = RunOnceOutcome.run_once
  /\ loop' = IdleLoop
  /\ quit' = FALSE
  /\ call' = NoCall
  /\ ret' = [op |-> "RunOnceReturn", may_block |-> call.may_block,
             res |-> RunOnceOutcome.res, ran |-> call.ran, dlv |-> call.dlv,
             dirty |-> call.dirty]
  /\ UNCHANGED <<last_id_, delayed_tasks_, io_tasks_, timers, subs, ready, cur, ub,
                 tasks, invoked, cancelOK>>
  /\ UNCHANGED <<endVars, utilVars>>

\* ---- BaseMessageLoop::Run -----------------------------------------------
Run ==
  /\ alive
  /\ loop.kind = "idle"
  /\ cur.kind = "none"
  /\ loop' = [kind |-> "Run", drive |-> "Run"]
  /\ quit' = FALSE
  /\ ret' = [op |-> "Run"]
  /\ UNCHANGED <<progVars, timers, subs, ready, cur, ub, histVars>>
  /\ UNCHANGED <<endVars, utilVars>>

RunReturn ==
  /\ loop.kind = "Run"
  /\ DriveReturns
  /\ loop' = IdleLoop
  /\ quit' = FALSE
  /\ ret' = [op |-> "RunReturn"]
  /\ UNCHANGED <<progVars, timers, subs, ready, cur, ub, histVars>>
  /\ UNCHANGED <<endVars, utilVars>>

\* ---- BaseMessageLoop::~BaseMessageLoop ----------------------------------
\* (mutant) A destructor that leaves the watchers of the remaining IOTasks watching.
DestructorOutcomeKeepsWatching ==
  [subs |-> subs,
   leaked_io |-> DOMAIN io_tasks_,
   lazily_deleted |->
     Cardinality({id \in DOMAIN delayed_tasks_ : delayed_tasks_[id] = NullClosure}),
   leaked_delayed |-> {id \in DOMAIN delayed_tasks_ : delayed_tasks_[id] # NullClosure}]

\* Lines 23-43: the subscriptions left after StopWatchingFileDescriptor() on every
\* IOTask, the ids logged as leaked by the two loops, and the count of line 33.
DestructorOutcome ==
  [subs |-> [id \in (DOMAIN subs) \ (DOMAIN io_tasks_) |-> subs[id]],
   leaked_io |-> DOMAIN io_tasks_,
   lazily_deleted |->
     Cardinality({id \in DOMAIN delayed_tasks_ : delayed_tasks_[id] = NullClosure}),
   leaked_delayed |-> {id \in DOMAIN delayed_tasks_ : delayed_tasks_[id] # NullClosure}]

\* The owner destroys the object between two drive calls.  The members are destroyed
\* after the body (the two maps become empty, weak_ptr_factory_ invalidates the weak
\* pointers bound into the notifications); the base loop is not owned and lives on.
Destructor ==
  /\ alive
  /\ loop.kind = "idle"
  /\ cur.kind = "none"
  /\ alive' = FALSE
  /\ subs' = DestructorOutcome.subs
  /\ report' = [lazily_deleted |-> DestructorOutcome.lazily_deleted,
                leaked_io |-> DestructorOutcome.leaked_io,
                leaked_delayed |-> DestructorOutcome.leaked_delayed]
  /\ delayed_tasks_' = EmptyMap
  /\ io_tasks_' = EmptyMap
  /\ ret' = [op |-> "Destructor"]
  /\ UNCHANGED <<last_id_, run_once_, timers, ready, loop, quit, cur, ub, histVars,
                 utilVars>>

\* Lines 51-56: the notification is bound to weak_ptr_factory_.GetWeakPtr(); the
\* closure the base loop runs for it: none once the weak pointer is invalid.
LateOutcome(n) == [run |-> NullClosure]

\* The base loop, driven by its owner after the object is gone, delivers a notification.
LateNotification(n) ==
  /\ ~alive
  /\ n \in DueTimers
  /\ timers' = timers \ {n}
  /\ invoked' = IF LateOutcome(n).run # NullClosure THEN Ran(LateOutcome(n).run)
                ELSE invoked
  /\ ret' = [op |-> "LateNotification", armedFor |-> n.armedFor]
  /\ UNCHANGED <<progVars, subs, ready, loop, quit, cur, ub, tasks, cancelOK, call,
                 endVars, utilVars>>

\* ---- the environment ----------------------------------------------------
\* The delay of an accepted notification elapses.
TimerExpires(n) ==
  /\ n \in timers
  /\ ~n.due
  /\ timers' = (timers \ {n}) \cup {[n EXCEPT !.due = TRUE]}
  /\ ret' = NoRet
  /\ UNCHANGED <<progVars, subs, ready, loop, quit, cur, ub, histVars>>
  /\ UNCHANGED <<endVars, utilVars>>

\* The descriptor becomes ready (readable and writable), or stops being ready.
FdChanges(fd) ==
  /\ ready' = IF fd \in ready THEN ready \ {fd} ELSE ready \cup {fd}
  /\ ret' = NoRet
  /\ UNCHANGED <<progVars, timers, subs, loop, quit, cur, ub, histVars>>
  /\ UNCHANGED <<endVars, utilVars>>

\* ---- the specification --------------------------------------------------
Next ==
  \/ \E b \in BOOLEAN : PostDelayedTask(b)
  \/ \E w \in WatchInputs : WatchFileDescriptor(w[1], w[2], w[3], w[4])
  \/ \E id \in TaskIds : CancelTask(id)
  \/ BreakLoop
  \/ \E b \in BOOLEAN : RunOnce(b)
  \/ RunOnceReturn
  \/ Run
  \/ RunReturn
  \/ \E n \in timers : OnRanPostedTask(n)
  \/ OnRanPostedTaskReturn
  \/ \E id \in DOMAIN subs : OnFileReady(id)
  \/ OnFileReadyReturn
  \/ Destructor
  \/ \E n \in timers : LateNotification(n)
  \/ \E n \in timers : TimerExpires(n)
  \/ \E fd \in {GoodFd} : FdChanges(fd)

Spec == Init /\ [][Next]_vars

\* ---- Run without BreakLoop or destructor, and a fair base loop -----------
\* The notifications PostDelayedTask can arm, before and after their delay has elapsed.
Waiting == [task_id : TaskIds \ {kTaskIdNull}, armedFor : Serials, due : {FALSE}]
Due == [task_id : TaskIds \ {kTaskIdNull}, armedFor : Serials, due : {TRUE}]

\* The owner registers tasks and calls Run; from then on only closures call the API,
\* none calls BreakLoop, and the object is not destroyed.
LiveNext ==
  \/ \E b \in BOOLEAN : PostDelayedTask(b)
  \/ \E w \in WatchInputs : WatchFileDescriptor(w[1], w[2], w[3], w[4])
  \/ \E id \in TaskIds : CancelTask(id)
  \/ Run
  \/ \E n \in timers : OnRanPostedTask(n)
  \/ OnRanPostedTaskReturn
  \/ \E id \in DOMAIN subs : OnFileReady(id)
  \/ OnFileReadyReturn
  \/ \E n \in timers : TimerExpires(n)
  \/ \E fd \in {GoodFd} : FdChanges(fd)

\* The owner calls Run; every delay elapses; the base loop, which takes timers and
\* descriptors in turn, delivers every due notification however often closures of
\* watches run in between; and every closure returns.
LiveSpec ==
  /\ Init
  /\ [][LiveNext]_vars
  /\ WF_vars(Run)
  /\ \A n \in Waiting : WF_vars(TimerExpires(n))
  /\ \A n \in Due : SF_vars(OnRanPostedTask(n))
  /\ WF_vars(OnRanPostedTaskReturn)
  /\ WF_vars(OnFileReadyReturn)

\* ==== brillo/file_utils.cc: WriteToFileAtomic ============================
\* The longest data written, and the values of a byte.
MaxSize == 2
Bytes == {0, 1}
Contents == UNION {[1 .. n -> Bytes] : n \in 0 .. MaxSize}

\* What is at a name: nothing, or an entity with its bytes (none for a directory).
Absent == [exists |-> FALSE, data |-> <<>>]
File(data) == [exists |-> TRUE, data |-> data]

\* The names: path.DirName(), path, and path with the random suffix.
DirName == "dir"
Path == "path"
Suffixed == "path.suffix"

\* (mutant) A temporary name that is the destination itself.
TempNameSamePath(path) == path

\* Line 266: temp_name = path.AddExtension(random_suffix).
TempName(path) == Suffixed

\* unlink(name), whose answer the function ignores: ok says the name was removed.
Unlink(f, name, ok) == IF ok THEN [f EXCEPT ![name] = Absent] ELSE f

IdleFileCall ==
  [pc |-> "idle", data |-> <<>>, position |-> 0, res |-> FALSE, before |-> Absent,
   unlink |-> "none"]

\* return false after unlink(temp_name), whose answer was ok.
Failed(ok) ==
  [fcall EXCEPT !.pc = "done", !.res = FALSE,
                !.unlink = IF ok THEN "ok" ELSE "failed"]

\* Lines 255-260: created is the answer of base::CreateDirectory.
WriteToFileAtomic(data, created) ==
  /\ fcall.pc \in {"idle", "done"}
  /\ IF ~fs[DirName].exists /\ ~created
       THEN /\ fcall' = [IdleFileCall EXCEPT !.pc = "done", !.data = data,
                                             !.before = fs[Path]]
            /\ fs' = fs
       ELSE /\ fcall' = [IdleFileCall EXCEPT !.pc = "open", !.data = data,
                                             !.before = fs[Path]]
            /\ fs' = [fs EXCEPT ![DirName] = File(<<>>)]
  /\ UNCHANGED <<loopVars, sig>>

\* Lines 266-273: open(temp_name, O_CREAT | O_EXCL | O_WRONLY), which fails when the
\* name exists; opened and unlinked are the answers of open and of unlink.
WriteOpen(opened, unlinked) ==
  /\ fcall.pc = "open"
  /\ opened => ~fs[TempName(Path)].exists
  /\ IF opened
       THEN /\ fs' = [fs EXCEPT ![TempName(Path)] = File(<<>>)]
            /\ fcall' = [fcall EXCEPT !.pc = IF Len(fcall.data) > 0 THEN "write"
                                             ELSE "sync"]
       ELSE /\ fs' = Unlink(fs, TempName(Path), unlinked)
            /\ fcall' = Failed(unlinked)
  /\ UNCHANGED <<loopVars, sig>>

\* Lines 276-286, one turn of the loop: bytes_written is the answer of write (-1, or
\* the number of bytes it appended).
WriteChunk(bytes_written, unlinked) ==
  /\ fcall.pc = "write"
  /\ bytes_written <= Len(fcall.data) - fcall.position
  /\ IF bytes_written < 0
       THEN /\ fs' = Unlink(fs, TempName(Path), unlinked)
            /\ fcall' = Failed(unlinked)
       ELSE /\ fs' = [fs EXCEPT ![TempName(Path)] =
                        File(@.data \o SubSeq(fcall.data, fcall.position + 1,
                                              fcall.position + bytes_written))]
            /\ fcall' = [fcall EXCEPT
                           !.position = @ + bytes_written,
                           !.pc = IF fcall.position + bytes_written < Len(fcall.data)
                                    THEN "write" ELSE "sync"]
  /\ UNCHANGED <<loopVars, sig>>

\* Lines 288-293: synced is the answer of fdatasync.
WriteSync(synced, unlinked) ==
  /\ fcall.pc = "sync"
  /\ IF synced
       THEN /\ fs' = fs
            /\ fcall' = [fcall EXCEPT !.pc = "close"]
       ELSE /\ fs' = Unlink(fs, TempName(Path), unlinked)
            /\ fcall' = Failed(unlinked)
  /\ UNCHANGED <<loopVars, sig>>

\* Lines 294-298: closed is the answer of close.
WriteClose(closed, unlinked) ==
  /\ fcall.pc = "close"
  /\ IF closed
       THEN /\ fs' = fs
            /\ fcall' = [fcall EXCEPT !.pc = "rename"]
       ELSE /\ fs' = Unlink(fs, TempName(Path), unlinked)
            /\ fcall' = Failed(unlinked)
  /\ UNCHANGED <<loopVars, sig>>

\* Lines 300-306: renamed is the answer of rename(temp_name, path).
WriteRename(renamed, unlinked) ==
  /\ fcall.pc = "rename"
  /\ IF renamed
       THEN /\ fs' = [fs EXCEPT ![Path] = fs[TempName(Path)],
                                ![TempName(Path)] = Absent]
            /\ fcall' = [fcall EXCEPT !.pc = "done", !.res = TRUE]
       ELSE /\ fs' = Unlink(fs, TempName(Path), unlinked)
            /\ fcall' = Failed(unlinked)
  /\ UNCHANGED <<loopVars, sig>>

\* The file systems a call starts in: the directory missing, or present with nothing,
\* or a file, at the destination and at the suffixed name.
WriteInit ==
  /\ LoopInit
  /\ sig = NoSig
  /\ fcall = IdleFileCall
  /\ \E d \in BOOLEAN, p \in {Absent} \cup {File(c) : c \in Contents},
        t \in {Absent, File(<<0>>)} :
       /\ ~d => (p = Absent /\ t = Absent)
       /\ fs = (DirName :> (IF d THEN File(<<>>) ELSE Absent))
                 @@ (Path :> p) @@ (Suffixed :> t)

WriteNext ==
  \/ \E data \in Contents, created \in BOOLEAN : WriteToFileAtomic(data, created)
  \/ \E opened, unlinked \in BOOLEAN : WriteOpen(opened, unlinked)
  \/ \E n \in -1 .. MaxSize, unlinked \in BOOLEAN : WriteChunk(n, unlinked)
  \/ \E synced, unlinked \in BOOLEAN : WriteSync(synced, unlinked)
  \/ \E closed, unlinked \in BOOLEAN : WriteClose(closed, unlinked)
  \/ \E renamed, unlinked \in BOOLEAN : WriteRename(renamed, unlinked)

WriteSpec == WriteInit /\ [][WriteNext]_vars

\* ==== brillo/file_utils.cc: TouchFile =====================================
kPermissions600 == 384
kPermissions777 == 511
kFailure == 0
kRegularFile == 1
kEmpty == 2

\* The uid and gid values, and the permissions passed: 0600, 0644 and 01000.
Ids == {0, 1}
PermInputs == {kPermissions600, 420, 512}

\* What is at a name: nothing, a regular file, a directory or a symbolic link.
Nothing == [type |-> "none", uid |-> 0, gid |-> 0, mode |-> 0]
Regular(uid, gid, mode) == [type |-> "regular", uid |-> uid, gid |-> gid, mode |-> mode]
Directory == [type |-> "dir", uid |-> 0, gid |-> 0, mode |-> kPermissions777]
Symlink == [type |-> "symlink", uid |-> 0, gid |-> 0, mode |-> kPermissions777]

\* The name a symbolic link at path points to, and the file there.
Target == "target"
TargetFile == Regular(0, 0, kPermissions600)

\* Lines 63-92.  opened: openat met no error other than the one the entity at path
\* causes (ENOENT for nothing, ELOOP for a symbolic link under O_NOFOLLOW);
\* stat_ok and deleted: the answers of fstat and of base::DeleteFile(path, true),
\* which removes what is at the name, a symbolic link itself and not its target.
RegularFileOrDelete(f, uid, gid, opened, stat_ok, deleted) ==
  LET e == f[Path]
      has_fd == opened /\ e.type \in {"regular", "dir"}
      eloop == opened /\ e.type = "symlink"
      path_not_empty == eloop \/ has_fd
  IN  IF has_fd /\ stat_ok /\ e.type = "regular" /\ e.uid = uid /\ e.gid = gid
        THEN [result |-> kRegularFile, fs |-> f]
      ELSE IF path_not_empty
        THEN IF ~deleted THEN [result |-> kFailure, fs |-> f]
             ELSE [result |-> kEmpty, fs |-> [f EXCEPT ![Path] = Nothing]]
      ELSE [result |-> kEmpty, fs |-> f]

\* Lines 100-133: [ok, fs, fd (a new file was created and fd_out holds it)].  who: the
\* effective uid and gid of the process, the owner of a file it creates; dir_ok and
\* created: the answers of base::CreateDirectory and of openat(O_CREAT | O_EXCL).
TouchFileInternal(f, uid, gid, who, opened, stat_ok, deleted, dir_ok, created) ==
  LET r == RegularFileOrDelete(f, uid, gid, opened, stat_ok, deleted)
  IN  IF r.result = kFailure THEN [ok |-> FALSE, fs |-> r.fs, fd |-> FALSE]
      ELSE IF r.result = kRegularFile THEN [ok |-> TRUE, fs |-> r.fs, fd |-> FALSE]
      ELSE IF r.fs[DirName].type # "dir" /\ ~dir_ok
        THEN [ok |-> FALSE, fs |-> r.fs, fd |-> FALSE]
      ELSE LET g == [r.fs EXCEPT ![DirName] = Directory]
           IN  IF g[Path].type # "none" \/ ~created
                 THEN [ok |-> FALSE, fs |-> g, fd |-> FALSE]
                 ELSE [ok |-> TRUE,
                       fs |-> [g EXCEPT ![Path] =
                                 Regular(who.euid, who.egid, kPermissions600)],
                       fd |-> TRUE]

\* Lines 155-179: [res, fs, fd (scoped_fd != -1)].  chmod_ok and removed: the answers of fchmod and of
\* base::DeleteFile(path, false), the latter ignored.
TouchOutcome(f, new_file_permissions, uid, gid, who, opened, stat_ok, deleted, dir_ok, created, chmod_ok, removed) ==
  IF new_file_permissions \div (kPermissions777 + 1) # 0
    THEN [res |-> FALSE, fs |-> f, fd |-> FALSE]
    ELSE LET t == TouchFileInternal(f, uid, gid, who, opened, stat_ok, deleted, dir_ok,
                                    created)
         IN  IF ~t.ok THEN [res |-> FALSE, fs |-> t.fs, fd |-> FALSE]
             ELSE IF t.fd /\ ~chmod_ok
               THEN [res |-> FALSE,
                     fs |-> IF removed THEN [t.fs EXCEPT ![Path] = Nothing] ELSE t.fs,
                     fd |-> TRUE]
             ELSE [res |-> TRUE,
                   fs |-> IF t.fd
                            THEN [t.fs EXCEPT ![Path].mode = new_file_permissions]
                            ELSE t.fs,
                   fd |-> t.fd]

TouchFile(new_file_permissions, uid, gid, answers) ==
  /\ fcall.pc \in {"idle", "returned"}
  /\ LET o == TouchOutcome(fs, new_file_permissions, uid, gid, fcall.who, answers[1],
                           answers[2], answers[3], answers[4], answers[5], answers[6],
                           answers[7])
     IN  /\ fs' = o.fs
         /\ fcall' = [pc |-> "returned", who |-> fcall.who, uid |-> uid, gid |-> gid,
                      res |-> o.res, fd |-> o.fd, before |-> fs[Path]]
  /\ UNCHANGED <<loopVars, sig>>

\* The process changes its effective ids (seteuid, setegid) between two calls.
SetIds(euid, egid) ==
  /\ fcall.pc \in {"idle", "returned"}
  /\ fcall.who # [euid |-> euid, egid |-> egid]
  /\ fcall' = [pc |-> "idle", who |-> [euid |-> euid, egid |-> egid], uid |-> 0,
               gid |-> 0, res |-> FALSE, fd |-> FALSE, before |-> Nothing]
  /\ UNCHANGED <<fs, loopVars, sig>>

\* The file systems a call starts in: at path nothing, a regular file of any owner, a
\* directory or a symbolic link to the target; the directory of path missing or not.
TouchInit ==
  /\ LoopInit
  /\ sig = NoSig
  /\ fcall = [pc |-> "idle", who |-> [euid |-> 0, egid |-> 0], uid |-> 0, gid |-> 0,
              res |-> FALSE, fd |-> FALSE, before |-> Nothing]
  /\ \E d \in BOOLEAN,
        e \in {Nothing, Directory, Symlink}
                \cup {Regular(u, g, kPermissions600) : u \in Ids, g \in Ids} :
       /\ ~d => e = Nothing
       /\ fs = (DirName :> (IF d THEN Directory ELSE Nothing))
                 @@ (Path :> e) @@ (Target :> TargetFile)

TouchNext ==
  \/ \E p \in PermInputs, uid \in Ids, gid \in Ids,
        answers \in [1 .. 7 -> BOOLEAN] : TouchFile(p, uid, gid, answers)
  \/ \E euid \in Ids, egid \in Ids : SetIds(euid, egid)

TouchSpec == TouchInit /\ [][TouchNext]_vars

\* ==== chromeos::AsynchronousSignalHandler, as its unit test drives it =====
\* The signals of the test, and the one whose default action is to be ignored: a
\* kill(getpid(), SIGCHLD) with no handler registered does nothing (line 81).
Signals == {"SIGCHLD", "SIGTERM"}
IgnoredByDefault == {"SIGCHLD"}
\* The signals the test sends to a handler that stays registered (line 95).
NB_SIGNALS == 5

SigInit ==
  /\ LoopInit
  /\ fs = NoFs
  /\ fcall = NoFileCall
  /\ sig = [handlers |-> EmptyMap, pending |-> {}, infos_ |-> <<>>,
            last |-> [op |-> "Init", signal |-> "none"]]

\* handler_.RegisterHandler(signal, base::Bind(&RecordInfoAndQuit, this, response))
\* (lines 67-71, 96-100): the callback registered is known by what it returns.
RegisterHandler(signal, response) ==
  /\ sig' = [sig EXCEPT !.handlers = [s \in (DOMAIN @) \cup {signal} |->
                                        IF s = signal THEN response ELSE @[s]],
                        !.last = [op |-> "RegisterHandler", signal |-> signal]]
  /\ UNCHANGED <<loopVars, fs, fcall>>

\* kill(getpid(), signal) (lines 73, 81, 103): a signal with a registered handler is
\* kept for the handler, one signal however often it is sent before it is read.
Kill(signal) ==
  /\ signal \in (DOMAIN sig.handlers) \cup IgnoredByDefault
  /\ sig' = [sig EXCEPT !.pending = IF signal \in DOMAIN sig.handlers
                                      THEN @ \cup {signal} ELSE @,
                        !.last = [op |-> "Kill", signal |-> signal]]
  /\ UNCHANGED <<loopVars, fs, fcall>>

\* Lines 30-34: [infos_, res].
RecordInfoAndQuit(response, infos, info) == [infos_ |-> Append(infos, info), res |-> response]

\* (mutant) A dispatch that keeps the handler whatever its callback returns.
DispatchOutcomeKeepsHandler(s, signal) ==
  IF signal \notin DOMAIN s.handlers THEN [handlers |-> s.handlers, infos_ |-> s.infos_]
  ELSE [handlers |-> s.handlers,
        infos_ |-> RecordInfoAndQuit(s.handlers[signal], s.infos_, signal).infos_]

\* The handler reads the signal and runs the callback registered for it, if any; a
\* callback that returns true is unregistered: [handlers, infos_].
DispatchOutcome(s, signal) ==
  IF signal \notin DOMAIN s.handlers THEN [handlers |-> s.handlers, infos_ |-> s.infos_]
  ELSE LET r == RecordInfoAndQuit(s.handlers[signal], s.infos_, signal)
       IN  [handlers |-> IF r.res
                           THEN [x \in (DOMAIN s.handlers) \ {signal} |-> s.handlers[x]]
                           ELSE s.handlers,
            infos_ |-> r.infos_]

\* Run() (lines 36-39, 76, 106): the loop delivers a pending signal to the handler.
OnSignal(signal) ==
  /\ signal \in sig.pending
  /\ Len(sig.infos_) < NB_SIGNALS
  /\ sig' = [sig EXCEPT !.pending = @ \ {signal},
                        !.handlers = DispatchOutcome(sig, signal).handlers,
                        !.infos_ = DispatchOutcome(sig, signal).infos_,
                        !.last = [op |-> "OnSignal", signal |-> signal]]
  /\ UNCHANGED <<loopVars, fs, fcall>>

SigNext ==
  \/ \E s \in Signals, response \in BOOLEAN : RegisterHandler(s, response)
  \/ \E s \in Signals : Kill(s)
  \/ \E s \in Signals : OnSignal(s)

SigSpec == SigInit /\ [][SigNext]_vars

\* ==== BaseMessageLoop::NextTaskId, one turn of its do/while at a time =====
\* (mutant) A while condition without the !res test.
TurnAcceptsZero(res, used) == res \notin used

\* Lines 176-178: the do/while ends with res when res is not 0 and in neither store.
TurnAccepts(res, used) == ~(res = kTaskIdNull \/ res \in used)

\* The loop is not followed beyond this many turns (it has no bound of its own).
MaxTurns == IdMod + 1

\* Every counter value and every content of the two stores, full stores included.
IdInit ==
  /\ last_id_ \in TaskIds
  /\ \E d \in SUBSET (TaskIds \ {kTaskIdNull}) :
       \E i \in SUBSET ((TaskIds \ {kTaskIdNull}) \ d) :
         /\ delayed_tasks_ = [id \in d |-> 1]
         /\ io_tasks_ = [id \in i |-> [persistent |-> TRUE, closure |-> 1]]
  /\ ret = [op |-> "NextTaskId", start |-> last_id_, turns |-> 0, res |-> kTaskIdNull,
            done |-> FALSE]
  /\ run_once_ = FALSE
  /\ timers = {}
  /\ subs = EmptyMap
  /\ ready = {}
  /\ loop = IdleLoop
  /\ quit = FALSE
  /\ cur = NoHandler
  /\ ub = FALSE
  /\ tasks = <<>>
  /\ invoked = [s \in Serials |-> 0]
  /\ cancelOK = {}
  /\ call = NoCall
  /\ alive = TRUE
  /\ report = NoReport
  /\ fs = NoFs
  /\ fcall = NoFileCall
  /\ sig = NoSig

\* Lines 175-178, one turn: res = ++last_id_, then the while condition.
NextTaskIdTurn ==
  /\ ~ret.done
  /\ ret.turns < MaxTurns
  /\ last_id_' = (last_id_ + 1) % IdMod
  /\ ret' = [ret EXCEPT !.turns = @ + 1,
                        !.res = last_id_',
                        !.done = TurnAccepts(last_id_', UsedIds)]
  /\ UNCHANGED <<delayed_tasks_, io_tasks_, run_once_, timers, subs, ready, loop, quit,
                 cur, ub, histVars, endVars, utilVars>>

IdNext == NextTaskIdTurn

IdSpec == IdInit /\ [][IdNext]_vars

\* ==== the claims =========================================================
\* The serials of the accepted registrations of a kind.
Registered(kind) == {s \in 1 .. Len(tasks) : tasks[s] = kind}

\* The last step was a registration that returned a task id.
Issued == ret.op \in {"PostDelayedTask", "WatchFileDescriptor"} /\ ret.res # kTaskIdNull

\* ---- C1 ----
\* C1: every id returned by a successful PostDelayedTask or WatchFileDescriptor is
\* non-zero and, when it is returned, was the key of no record of either store
\* (cleared delayed records awaiting their notification included) and is now the key
\* of the new record alone; the two stores never share a key and never hold key 0.
C1_IssuedIdFresh ==
  /\ [](/\ kTaskIdNull \notin UsedIds
        /\ (DOMAIN delayed_tasks_) \cap (DOMAIN io_tasks_) = {}
        /\ Issued => /\ ret.res \in UsedIds
                     /\ ret.op = "PostDelayedTask" =>
                          delayed_tasks_[ret.res] = Len(tasks)
                     /\ ret.op = "WatchFileDescriptor" =>
                          io_tasks_[ret.res].closure = Len(tasks))
  /\ [][(ret'.op \in {"PostDelayedTask", "WatchFileDescriptor"}
           /\ ret'.res # kTaskIdNull) => ret'.res \notin UsedIds]_vars

\* C1 witness: an id was issued after the counter wrapped (it is below the key of an
\* older record), while a canceled delayed record still awaits its notification.
C1_Witness ==
  /\ Issued
  /\ \E id \in DOMAIN delayed_tasks_ :
        /\ delayed_tasks_[id] = NullClosure
        /\ id > ret.res
        /\ \E n \in timers : n.task_id = id

\* ---- C2 ----
\* C2: once CancelTask has returned true for a delayed task whose closure had not been
\* run, the closure is never run, also when the notification is delivered; and
\* CancelTask returns true at most once for one delayed task.
C2_CanceledNeverRuns ==
  /\ [][\A s \in Registered("delayed") :
          (s \in cancelOK /\ invoked[s] = 0) => invoked'[s] = 0]_vars
  /\ [][(ret'.op = "CancelTask" /\ ret'.res /\ ret'.closure \in Registered("delayed"))
          => (ret'.closure \notin cancelOK /\ invoked'[ret'.closure] = invoked[ret'.closure])]_vars

\* C2 witness: a delayed task was canceled, its notification has since been delivered
\* and its record removed, and its closure was not run.
C2_Witness ==
  \E s \in Registered("delayed") :
    /\ s \in cancelOK
    /\ invoked[s] = 0
    /\ \A n \in timers : n.armedFor # s
    /\ delayed_tasks_ = EmptyMap

\* ---- C3 ----
\* C3: CancelTask returns false and changes neither store, no subscription and not
\* run_once_ when the id is 0, is in neither store, or is a delayed record whose
\* closure is null.
C3_CancelFailsUnchanged ==
  [][(/\ ret'.op = "CancelTask"
      /\ \/ ret'.task_id = kTaskIdNull
         \/ ret'.task_id \notin UsedIds
         \/ /\ ret'.task_id \in DOMAIN delayed_tasks_
            /\ delayed_tasks_[ret'.task_id] = NullClosure)
       => (~ret'.res /\ UNCHANGED <<delayed_tasks_, io_tasks_, subs, run_once_>>)]_vars

\* C3 witness: CancelTask returned false for the delayed task whose closure is running.
C3_Witness ==
  /\ ret.op = "CancelTask"
  /\ ~ret.res
  /\ cur.kind = "delayed"
  /\ ret.task_id = cur.id
  /\ cur.id \in DOMAIN delayed_tasks_

\* ---- C4 ----
\* The closure of a one-shot watch is running.
InOneShot == cur.kind = "io" /\ ~cur.persistent

\* C4 (as stated): while the closure of a one-shot watch runs, the watch store holds
\* no record under the watch's id and no subscription is kept under it, and
\* CancelTask(own id) called by the closure returns false.
C4_OneShotIdAbsent ==
  /\ [](InOneShot => (cur.id \notin DOMAIN io_tasks_ /\ cur.id \notin DOMAIN subs))
  /\ [][(InOneShot /\ ret'.op = "CancelTask" /\ ret'.task_id = cur.id) => ~ret'.res]_vars

\* C4 (amended): when the closure of a one-shot watch starts, its record is erased and
\* its subscription dropped; while it runs the watch store holds no record of that
\* watch, and holds the watch's id (record and subscription) only for a watch the
\* closure itself registered; CancelTask(own id) called by the closure returns true
\* only for a task the closure itself registered under that id.
C4_OneShotRecordRetired ==
  /\ []((InOneShot /\ ret.op = "OnFileReady") =>
          (cur.id \notin DOMAIN io_tasks_ /\ cur.id \notin DOMAIN subs))
  /\ [](InOneShot =>
          /\ \A id \in DOMAIN io_tasks_ : io_tasks_[id].closure # cur.closure
          /\ cur.id \in DOMAIN io_tasks_ => io_tasks_[cur.id].closure > cur.since
          /\ cur.id \in DOMAIN subs => cur.id \in DOMAIN io_tasks_)
  /\ [][(InOneShot /\ ret'.op = "CancelTask" /\ ret'.task_id = cur.id /\ ret'.res)
          => ret'.closure > cur.since]_vars

\* C4 witness: the closure of a one-shot watch called CancelTask(own id), which
\* returned false, the id being in neither store.
C4_Witness ==
  /\ InOneShot
  /\ ret.op = "CancelTask"
  /\ ret.task_id = cur.id
  /\ ~ret.res
  /\ cur.id \notin UsedIds

\* ---- C5 ----
\* C5: the closure of a one-shot watch is run at most once.
C5_OneShotRunsOnce == \A s \in Registered("oneshot") : invoked[s] <= 1

\* C5 witness: a one-shot watch has fired, the descriptor is still ready and the base
\* loop is handing out work.
C5_Witness ==
  /\ \E s \in Registered("oneshot") : invoked[s] = 1
  /\ GoodFd \in ready
  /\ CanDispatch

\* ---- C6 ----
\* C6: while the loop object exists, a persistent watch that was not canceled keeps
\* its record, with its subscription; every readiness event delivered to its record runs its closure once;
\* and once CancelTask has returned true for it (also from its own closure) its
\* closure is never run again.
C6_PersistentUntilCanceled ==
  /\ [](\A s \in Registered("persistent") :
          (alive /\ s \notin cancelOK) =>
            \E id \in DOMAIN io_tasks_ :
              /\ io_tasks_[id].closure = s
              /\ io_tasks_[id].persistent
              /\ id \in DOMAIN subs)
  /\ [][(/\ ret'.op = "OnFileReady"
         /\ ret'.task_id \in DOMAIN io_tasks_
         /\ io_tasks_[ret'.task_id].persistent)
          => LET s == io_tasks_[ret'.task_id].closure
             IN  /\ invoked'[s] = invoked[s] + 1
                 /\ cur'.kind = "io" /\ cur'.closure = s
                 /\ ret'.task_id \in DOMAIN io_tasks_'
                 /\ ret'.task_id \in DOMAIN subs']_vars
  /\ [][\A s \in Registered("persistent") :
          s \in cancelOK => invoked'[s] = invoked[s]]_vars

\* C6 witness: a persistent watch fired, fired again and was canceled by its own
\* closure, the descriptor being still ready.
C6_Witness ==
  /\ cur.kind = "io"
  /\ cur.persistent
  /\ cur.closure \in cancelOK
  /\ invoked[cur.closure] = 2
  /\ GoodFd \in ready

\* C6 witness of the canceled case: a persistent watch fired once, was canceled, and
\* the base loop is handing out work with the descriptor ready.
C6_CanceledIdle ==
  /\ \E s \in Registered("persistent") : s \in cancelOK /\ invoked[s] = 1
  /\ GoodFd \in ready
  /\ CanDispatch

\* ---- C7 ----
\* C7: the closure of a delayed task is run at most once; while it runs its record is
\* in the store with a null closure; and CancelTask never returns true for a delayed
\* task whose closure has started, in particular not for the id of the running one.
C7_DelayedRunsOnceNotCancelable ==
  /\ [](\A s \in Registered("delayed") : invoked[s] <= 1)
  /\ [](cur.kind = "delayed" =>
          (cur.id \in DOMAIN delayed_tasks_ /\ delayed_tasks_[cur.id] = NullClosure))
  /\ [][(ret'.op = "CancelTask" /\ ret'.res /\ ret'.closure \in Registered("delayed"))
          => invoked[ret'.closure] = 0]_vars
  /\ [][(cur.kind = "delayed" /\ ret'.op = "CancelTask" /\ ret'.task_id = cur.id)
          => ~ret'.res]_vars

\* C7 witness: CancelTask(id) returned false for a delayed task that has run and whose
\* record is gone.
C7_Witness ==
  /\ ret.op = "CancelTask"
  /\ ~ret.res
  /\ ret.task_id # kTaskIdNull
  /\ ret.task_id \notin UsedIds
  /\ cur.kind = "none"
  /\ \E s \in Registered("delayed") : invoked[s] = 1
  /\ Len(tasks) = 1

\* ---- C8 ----
\* C8: a RunOnce call runs at most one closure and returns true exactly when it ran
\* one; the closure it runs is the one of the last event the base loop delivered in
\* the call, every event delivered before it being the notification of a canceled
\* delayed task (so notifications delivered in order run their tasks in order, one
\* per call).
C8_RunOnceOneCallback ==
  /\ loop.kind = "RunOnce" => Len(call.ran) <= 1
  /\ ret.op = "RunOnceReturn" =>
       /\ Len(ret.ran) <= 1
       /\ ret.res <=> Len(ret.ran) = 1
       /\ Len(ret.ran) = 1 =>
            /\ Len(ret.dlv) >= 1
            /\ ret.ran[1] = ret.dlv[Len(ret.dlv)]
            /\ \A i \in 1 .. (Len(ret.dlv) - 1) :
                  ret.dlv[i] \in Registered("delayed") \cap cancelOK

\* C8 witness: of two delayed tasks the first has run before, and a RunOnce call has
\* just returned true having run the second.
C8_Witness ==
  /\ ret.op = "RunOnceReturn"
  /\ ret.res
  /\ ret.ran = <<2>>
  /\ tasks = <<"delayed", "delayed">>
  /\ invoked[1] = 1
  /\ cancelOK = {}
  /\ delayed_tasks_ = EmptyMap

\* ---- C9 ----
\* No timer notification is due and no subscribed descriptor is ready.
NothingReady == DueTimers = {} /\ ReadySubs = {}

\* C9: a RunOnce(may_block = false) call with nothing ready can return at once, and
\* when the base loop delivered nothing in the call it returns false, has run no
\* closure, leaves run_once_ false and has changed no store and no subscription.
C9_NonBlockingIdle ==
  /\ (ret.op = "RunOnceReturn" /\ ~ret.may_block /\ ret.dlv = <<>>) =>
       (~ret.res /\ ret.ran = <<>> /\ ~run_once_ /\ ~ret.dirty)
  /\ (loop.kind = "RunOnce" /\ ~call.may_block /\ cur.kind = "none" /\ NothingReady) =>
       ENABLED RunOnceReturn

\* C9 witness: RunOnce(false) returned false having delivered nothing, while a timer
\* notification and a watch are pending.
C9_Witness ==
  /\ ret.op = "RunOnceReturn"
  /\ ~ret.may_block
  /\ ret.dlv = <<>>
  /\ ~ret.res
  /\ timers # {}
  /\ io_tasks_ # EmptyMap

\* ---- C10 ----
\* C10: a registration rejected for its descriptor, for its mode or by the base loop
\* returns 0 and leaves both stores, the subscriptions and run_once_ as they were.
C10_RejectedNoPartialState ==
  [][(ret'.op \in {"PostDelayedTask", "WatchFileDescriptor"} /\ ret'.why # "accepted")
       => (ret'.res = kTaskIdNull
           /\ UNCHANGED <<delayed_tasks_, io_tasks_, subs, run_once_>>)]_vars

\* C10 witness: a running closure's WatchFileDescriptor was refused by the base loop
\* during RunOnce, another watch being registered.
C10_Witness ==
  /\ ret.op = "WatchFileDescriptor"
  /\ ret.why = "refused"
  /\ ret.res = kTaskIdNull
  /\ cur.kind # "none"
  /\ run_once_
  /\ io_tasks_ # EmptyMap

\* ---- C11 ----
\* C11: BreakLoop called by a running closure changes no record, no subscription and no
\* pending notification and leaves the closure running; from then on the closure can
\* return, no closure is started before the drive call returns, the drive call can
\* return as soon as the handler has returned, and outside a drive call no stop
\* request is left over, so a later drive call on the loop, while it exists, hands
\* out the remaining work.
C11_StopEndsDrive ==
  /\ [][ret'.op = "BreakLoop" =>
          (/\ cur.kind # "none" /\ loop.kind # "idle"
           /\ quit'
           /\ UNCHANGED <<delayed_tasks_, io_tasks_, subs, timers, cur, run_once_>>)]_vars
  /\ [][quit => (ret'.op \notin {"OnRanPostedTask", "OnFileReady"}
                 /\ invoked' = invoked)]_vars
  /\ []((quit /\ cur.kind = "delayed") => ENABLED OnRanPostedTaskReturn)
  /\ []((quit /\ cur.kind = "io") => ENABLED OnFileReadyReturn)
  /\ []((quit /\ cur.kind = "none" /\ loop.kind = "Run") => ENABLED RunReturn)
  /\ []((quit /\ cur.kind = "none" /\ loop.kind = "RunOnce") => ENABLED RunOnceReturn)
  /\ [](loop.kind = "idle" => ~quit)
  /\ []((alive /\ loop.kind = "idle" /\ cur.kind = "none") => ENABLED Run)

\* C11 witness: Run has returned after a closure called BreakLoop, while the
\* notification of a delayed task that was not canceled is due and a watch is ready.
C11_Witness ==
  /\ ret.op = "RunReturn"
  /\ \E n \in DueTimers : /\ n.task_id \in DOMAIN delayed_tasks_
                          /\ delayed_tasks_[n.task_id] # NullClosure
  /\ \E id \in ReadySubs : id \in DOMAIN io_tasks_

\* ---- C12 ----
\* C12: when the destructor has run, no subscription is left under the id of a watch
\* record it found, the delayed records it found with a null closure are counted in
\* lazily_deleted and are not among the ids logged as leaked, which are the ids of the
\* watch records and of the delayed records with a closure; and afterwards no closure
\* is ever run, also when a notification armed before is delivered.
C12_TeardownSilences ==
  /\ [][ret'.op = "Destructor" =>
          (/\ \A id \in DOMAIN io_tasks_ : id \notin DOMAIN subs'
           /\ report'.leaked_io = DOMAIN io_tasks_
           /\ report'.leaked_delayed =
                {id \in DOMAIN delayed_tasks_ : delayed_tasks_[id] # NullClosure}
           /\ report'.lazily_deleted =
                Cardinality((DOMAIN delayed_tasks_) \ report'.leaked_delayed)
           /\ ~alive')]_vars
  /\ [](~alive => (subs = EmptyMap /\ cur = NoHandler))
  /\ [][~alive => (invoked' = invoked /\ cur' = NoHandler /\ ~alive')]_vars
  /\ [](alive => report = NoReport)

\* C12 witness: after a destructor that found a watch and a delayed task that was not
\* canceled, the notification of the delayed task was delivered; it has not run.
C12_Witness ==
  /\ ~alive
  /\ ret.op = "LateNotification"
  /\ ret.armedFor \in Registered("delayed") \ cancelOK
  /\ invoked[ret.armedFor] = 0
  /\ report.leaked_delayed # {}
  /\ report.leaked_io # {}

\* C12 witness of the counted case: the destructor found a canceled delayed task and
\* one that was not canceled, and the notification of the canceled one was delivered.
C12_CountedWitness ==
  /\ ~alive
  /\ ret.op = "LateNotification"
  /\ ret.armedFor \in cancelOK
  /\ report.lazily_deleted = 1
  /\ Cardinality(report.leaked_delayed) = 1

\* ---- C13 ----
\* C13 (as stated): during a WriteToFileAtomic call the destination holds what it held
\* before the call; when the call has returned false it still does and nothing is at
\* the temporary name; when it has returned true the destination holds the data.
C13_AtomicOrUnchanged ==
  /\ fcall.pc \in {"open", "write", "sync", "close", "rename"} =>
       fs[Path] = fcall.before
  /\ (fcall.pc = "done" /\ ~fcall.res) =>
       (fs[Path] = fcall.before /\ ~fs[Suffixed].exists)
  /\ (fcall.pc = "done" /\ fcall.res) =>
       (fs[Path] = File(fcall.data) /\ ~fs[Suffixed].exists)

\* C13 (amended): the same, the temporary name being empty after a failure unless the
\* unlink of the temporary file, whose answer the function ignores, failed too.
C13_AtomicUnlinkAttempted ==
  /\ fcall.pc \in {"open", "write", "sync", "close", "rename"} =>
       fs[Path] = fcall.before
  /\ (fcall.pc = "done" /\ ~fcall.res) =>
       /\ fs[Path] = fcall.before
       /\ fs[Suffixed].exists => fcall.unlink = "failed"
  /\ (fcall.pc = "done" /\ fcall.res) =>
       (fs[Path] = File(fcall.data) /\ ~fs[Suffixed].exists)

\* C13 witness: a call with two bytes failed after writing one of them, over a
\* destination that held other bytes; the temporary file was removed.
C13_Witness ==
  /\ fcall.pc = "done"
  /\ ~fcall.res
  /\ fcall.position = 1
  /\ Len(fcall.data) = 2
  /\ fcall.unlink = "ok"
  /\ fcall.before.exists
  /\ fcall.before.data # fcall.data

\* ---- C14 ----
\* C14 (as stated): when TouchFile has returned true, a regular file owned by the uid
\* and gid passed is at path, whatever was there before; a regular file that was
\* there with that owner is unchanged; and the target of a symbolic link is untouched.
C14_TouchEnsuresOwned ==
  /\ (fcall.pc = "returned" /\ fcall.res) =>
       /\ fs[Path].type = "regular"
       /\ fs[Path].uid = fcall.uid
       /\ fs[Path].gid = fcall.gid
  /\ (fcall.pc = "returned" /\ fcall.before.type = "regular"
        /\ fcall.before.uid = fcall.uid /\ fcall.before.gid = fcall.gid /\ fcall.res) =>
       fs[Path] = fcall.before
  /\ fs[Target] = TargetFile

\* What holds of TouchFile: when it has returned true a regular file is at path:
\* the file that was there, a regular file with the owner passed, when the call
\* created none, and else a new file with the permissions passed whose owner is the
\* process's effective uid and gid; the target of a symbolic link is untouched.
TouchOwnedByProcess ==
  /\ (fcall.pc = "returned" /\ fcall.res) =>
       /\ fs[Path].type = "regular"
       /\ IF ~fcall.fd
            THEN /\ fs[Path] = fcall.before
                 /\ fs[Path].uid = fcall.uid
                 /\ fs[Path].gid = fcall.gid
            ELSE /\ fs[Path].uid = fcall.who.euid
                 /\ fs[Path].gid = fcall.who.egid
  /\ fs[Target] = TargetFile

\* C14 witness: TouchFile has returned true having replaced a symbolic link by a new
\* file, for a uid that is not the process's.
C14_Witness ==
  /\ fcall.pc = "returned"
  /\ fcall.res
  /\ fcall.before.type = "symlink"
  /\ fs[Path].type = "regular"
  /\ fcall.uid # fcall.who.euid

C15_UnregisteredWitness ==
  /\ sig.infos_ = <<"SIGCHLD">>
  /\ "SIGCHLD" \notin DOMAIN sig.handlers
  /\ sig.last = [op |-> "Kill", signal |-> "SIGCHLD"]
  /\ sig.pending = {}

\* ---- C16 ----
\* C16: while the object exists a key leaves the delayed-task store only in
\* OnRanPostedTask for that key (at once when the closure is null, else when the
\* closure has returned), and it always does: when OnRanPostedTask(id) is over, id is
\* not a key of the store, whatever the closure did; a CancelTask that returns true
\* for a delayed task nulls the closure and keeps the key; and every key of the store
\* has its notification pending or its closure running.
C16_DelayedErasedByFireOnly ==
  /\ [][alive' =>
          \A id \in (DOMAIN delayed_tasks_) \ (DOMAIN delayed_tasks_') :
            \/ ret' = [op |-> "OnRanPostedTask", task_id |-> id] /\ cur'.kind = "none"
            \/ ret'.op = "OnRanPostedTaskReturn" /\ cur.id = id]_vars
  /\ [][ret'.op = "OnRanPostedTaskReturn" =>
          (cur.kind = "delayed" /\ cur.id \notin DOMAIN delayed_tasks_')]_vars
  /\ [][(ret'.op = "OnRanPostedTask" /\ cur'.kind = "none") =>
          ret'.task_id \notin DOMAIN delayed_tasks_']_vars
  /\ [][(ret'.op = "CancelTask" /\ ret'.res /\ ret'.task_id \in DOMAIN delayed_tasks_)
          => (/\ ret'.task_id \in DOMAIN delayed_tasks_'
              /\ delayed_tasks_'[ret'.task_id] = NullClosure
              /\ DOMAIN delayed_tasks_' = DOMAIN delayed_tasks_)]_vars
  /\ [](\A id \in DOMAIN delayed_tasks_ :
          \/ \E n \in timers : n.task_id = id
          \/ cur.kind = "delayed" /\ cur.id = id)

\* C16 witness: OnRanPostedTask is over for a task whose closure canceled another
\* delayed task; the canceled task's record is the only one left.
C16_Witness ==
  /\ ret.op = "OnRanPostedTaskReturn"
  /\ invoked[1] = 1
  /\ cancelOK = {2}
  /\ tasks = <<"delayed", "delayed">>
  /\ \E id \in TaskIds : delayed_tasks_ = (id :> NullClosure)

\* ---- C17 ----
\* The number of increments that take the counter from last to r (1 .. IdMod).
Dist(last, r) == ((r - last - 1) % IdMod) + 1

\* The first id after last, in cyclic order, that is not 0 and not in used.
FirstFree(last, used) ==
  CHOOSE r \in TaskIds :
    /\ r # kTaskIdNull
    /\ r \notin used
    /\ \A k \in 1 .. (Dist(last, r) - 1) :
          LET c == (last + k) % IdMod IN c = kTaskIdNull \/ c \in used

\* C17: when the do/while of NextTaskId ends, its result and the counter are the first
\* id after the starting counter, in cyclic order modulo 2^IdBits, that is not 0 and is
\* a key of neither store (it is what NextTaskId of the other specifications computes);
\* when some such id exists the loop ends, within 2^IdBits turns; and until it ends
\* every value it has passed over is 0 or a key.
C17_FirstFreeCyclic ==
  /\ ret.done =>
       /\ ret.res = FirstFree(ret.start, UsedIds)
       /\ ret.res = NextTaskIdFrom(ret.start, UsedIds)
       /\ last_id_ = ret.res
       /\ ret.res # kTaskIdNull
       /\ ret.res \notin UsedIds
       /\ ret.turns = Dist(ret.start, ret.res)
  /\ FreeIdExists =>
       /\ ret.turns <= IdMod
       /\ ~ret.done => (ret.turns < IdMod /\ ENABLED NextTaskIdTurn)
  /\ (~ret.done /\ ret.turns > 0) => (ret.res = kTaskIdNull \/ ret.res \in UsedIds)
  /\ ~FreeIdExists => ~ret.done

\* C17 witness: the loop has ended below its starting counter, having wrapped past the
\* maximum and skipped 0 and the key of a record.
C17_Witness ==
  /\ ret.done
  /\ ret.res < ret.start
  /\ \E id \in UsedIds : id < ret.res

\* ---- C18 ----
\* C18: run_once_ becomes true only in the step that enters RunOnce and is true only
\* while a RunOnce call is in progress: it is false when RunOnce has returned,
\* whatever the call did; and under Run the end of a handler, with or without a
\* closure, requests no stop and leaves run_once_ false.
C18_FlagOnlyInRunOnce ==
  /\ [](run_once_ => loop.kind = "RunOnce")
  /\ [][(~run_once_ /\ run_once_') => ret'.op = "RunOnce"]_vars
  /\ [](ret.op = "RunOnceReturn" => (~run_once_ /\ loop.kind = "idle"))
  /\ [][(loop.kind = "Run"
           /\ ret'.op \in {"OnRanPostedTask", "OnRanPostedTaskReturn", "OnFileReady",
                           "OnFileReadyReturn"})
          => (quit' = quit /\ ~run_once_')]_vars

\* C18 witness: under Run the closure of a delayed task has returned, no stop is
\* requested and more work is ready.
C18_Witness ==
  /\ ret.op = "OnRanPostedTaskReturn"
  /\ loop.kind = "Run"
  /\ ~quit
  /\ ~run_once_
  /\ ReadyWork

\* C18 witness of the three ways RunOnce ends: it has returned false after the
\* notification of a canceled task was delivered and nothing ran.
C18_NothingRanWitness ==
  /\ ret.op = "RunOnceReturn"
  /\ ~ret.res
  /\ ret.dlv # <<>>
  /\ ~run_once_

\* ---- C19 ----
\* C19: under Run, with no BreakLoop and no destructor and a base loop that delivers
\* every notification it accepted, the closure of every accepted delayed task is
\* eventually run unless CancelTask returns true for it, and every key of the
\* delayed-task store eventually leaves the store.
C19_DelayedEventuallyRuns ==
  /\ \A s \in Serials :
       [](s \in Registered("delayed") => <>(invoked[s] >= 1 \/ s \in cancelOK))
  /\ \A id \in TaskIds :
       [](id \in DOMAIN delayed_tasks_ => <>(id \notin DOMAIN delayed_tasks_))

\* C19 witness: under Run both a delayed task that was canceled and one that was not
\* have had their notifications delivered; the second has run and the store is empty.
C19_Witness ==
  /\ loop.kind = "Run"
  /\ tasks = <<"delayed", "delayed">>
  /\ cancelOK = {1}
  /\ invoked = (1 :> 0) @@ (2 :> 1)
  /\ delayed_tasks_ = EmptyMap
  /\ timers = {}

\* ---- C20 ----
\* f and g agree on every key but k: the same other keys, each with the same value.
SameBut(f, g, k) ==
  /\ (DOMAIN f) \ {k} = (DOMAIN g) \ {k}
  /\ \A x \in (DOMAIN f) \ {k} : f[x] = g[x]

\* C20: CancelTask(id), called by the owner or by a running closure, leaves every
\* record and every subscription under another id as it was, and run_once_, the
\* counter, the pending notifications and the running handler; so the record and the
\* subscription of a persistent watch whose closure cancels another task stay; and a
\* closure for which CancelTask returned true is not started afterwards.
C20_CancelFrame ==
  /\ [][ret'.op = "CancelTask" =>
          (/\ SameBut(delayed_tasks_, delayed_tasks_', ret'.task_id)
           /\ SameBut(io_tasks_, io_tasks_', ret'.task_id)
           /\ SameBut(subs, subs', ret'.task_id)
           /\ UNCHANGED <<run_once_, last_id_, timers, quit, cur, loop>>)]_vars
  /\ [][(/\ ret'.op = "CancelTask"
         /\ cur.kind = "io" /\ cur.persistent
         /\ ret'.task_id # cur.id
         /\ cur.id \in DOMAIN io_tasks_)
          => (/\ cur.id \in DOMAIN io_tasks_'
              /\ io_tasks_'[cur.id] = io_tasks_[cur.id]
              /\ (cur.id \in DOMAIN subs) = (cur.id \in DOMAIN subs'))]_vars
  /\ [][\A s \in cancelOK : invoked'[s] = invoked[s]]_vars

\* C20 witness: inside RunOnce the closure of a persistent watch has canceled another
\* task; its own record and subscription are in place and run_once_ is still set.
C20_Witness ==
  /\ ret.op = "CancelTask"
  /\ ret.res
  /\ cur.kind = "io"
  /\ cur.persistent
  /\ ret.task_id # cur.id
  /\ cur.id \in DOMAIN io_tasks_
  /\ io_tasks_[cur.id].closure = cur.closure
  /\ cur.id \in DOMAIN subs
  /\ run_once_

\* ---- C21 ----
\* Every event in dlv was the notification of a delayed task that had been canceled.
OnlyCanceled(dlv) ==
  \A i \in 1 .. Len(dlv) : dlv[i] \in Registered("delayed") \cap cancelOK

\* C21: OnRanPostedTask for a record whose closure is null erases that record and
\* changes nothing else: run_once_ keeps its value, no stop is requested, no closure
\* is run; so a RunOnce(false) call in which only notifications of canceled tasks
\* were delivered returns false with run_once_ reset, and a RunOnce(true) call that
\* has run no closure cannot return, whatever was delivered in it.
C21_CanceledIsNoWork ==
  /\ [][(/\ ret'.op = "OnRanPostedTask"
         /\ ret'.task_id \in DOMAIN delayed_tasks_
         /\ delayed_tasks_[ret'.task_id] = NullClosure)
          => (/\ delayed_tasks_' = Erase(delayed_tasks_, ret'.task_id)
              /\ UNCHANGED <<run_once_, quit, cur, invoked, io_tasks_, subs, last_id_,
                             loop>>)]_vars
  /\ []((/\ ret.op = "RunOnceReturn"
         /\ ~ret.may_block
         /\ OnlyCanceled(ret.dlv))
          => (~ret.res /\ ret.ran = <<>> /\ ~run_once_))
  /\ []((/\ loop.kind = "RunOnce"
         /\ call.may_block
         /\ call.ran = <<>>)
          => (~quit /\ run_once_ /\ ~ENABLED RunOnceReturn))
  /\ []((ret.op = "RunOnceReturn" /\ ret.may_block) => (ret.res /\ Len(ret.ran) = 1))

\* C21 witness: a RunOnce(false) call has returned false after the notification of a
\* canceled delayed task was delivered in it and its record erased.
C21_Witness ==
  /\ ret.op = "RunOnceReturn"
  /\ ~ret.may_block
  /\ ret.dlv # <<>>
  /\ OnlyCanceled(ret.dlv)
  /\ ~ret.res
  /\ ret.dirty
  /\ delayed_tasks_ = EmptyMap

\* C21, the blocking case: inside a RunOnce(true) call the notification of a canceled
\* delayed task has been delivered, no closure has run and the call goes on.
C21_BlockingWitness ==
  /\ loop.kind = "RunOnce"
  /\ call.may_block
  /\ call.dlv # <<>>
  /\ OnlyCanceled(call.dlv)
  /\ call.ran = <<>>
  /\ ret.op = "OnRanPostedTask"
  /\ run_once_

\* ---- C22 ----
\* C22: while the loop object exists, every notification the base loop holds carries
\* the id of a record of delayed_tasks_ whose closure is the one it was armed for, or
\* null; no two notifications carry the same id; the find() of line 183 never returns
\* end(); and the closure OnRanPostedTask starts is the one its notification was
\* armed for, under the id of that notification.
C22_NotificationBound ==
  /\ [](alive =>
          \A n \in timers :
            /\ n.task_id \in DOMAIN delayed_tasks_
            /\ delayed_tasks_[n.task_id] \in {NullClosure, n.armedFor})
  /\ [](\A n1, n2 \in timers : n1.task_id = n2.task_id => n1.armedFor = n2.armedFor)
  /\ [](~ub)
  /\ [][ret'.op = "OnRanPostedTask" =>
          \A n \in timers \ timers' :
            /\ ret'.task_id = n.task_id
            /\ n.task_id \in DOMAIN delayed_tasks_
            /\ cur' # cur => (/\ cur'.kind = "delayed"
                              /\ cur'.id = n.task_id
                              /\ cur'.closure = n.armedFor
                              /\ invoked' = Ran(n.armedFor))
            /\ cur' = cur => invoked' = invoked]_vars

\* C22 witness: the counter has wrapped while the notification of a canceled delayed
\* task was pending, a later task has taken a smaller id, and the base loop, inside a
\* drive call, can deliver either notification.
C22_Witness ==
  /\ alive
  /\ CanDispatch
  /\ \E n1, n2 \in DueTimers :
       /\ n1.armedFor = 1
       /\ n2.armedFor = 2
       /\ n2.task_id < n1.task_id
       /\ delayed_tasks_[n1.task_id] = NullClosure
       /\ delayed_tasks_[n2.task_id] = 2

\* C22, the later task fires first: the notification of the later task has been
\* delivered and its closure is running, while the canceled task's record and
\* notification are still in place under their own id.
C22_LaterFiresWitness ==
  /\ ret.op = "OnRanPostedTask"
  /\ cur.kind = "delayed"
  /\ cur.closure = 2
  /\ \E n \in timers :
       /\ n.armedFor = 1
       /\ n.task_id < cur.id
       /\ n.task_id > 1
       /\ delayed_tasks_[n.task_id] = NullClosure
  /\ last_id_ = cur.id

\* ---- C23 ----
\* C23: between the operations of the loop (and while a closure runs) the ids with a
\* subscription in the base loop are the keys of io_tasks_; an accepted
\* WatchFileDescriptor adds its id to both, on the descriptor given; a CancelTask that
\* returns true for a watch and the firing of a one-shot watch take the id out of
\* both; a WatchFileDescriptor the base loop refused leaves both as they were.
C23_SubscriptionsAreRecords ==
  /\ [](DOMAIN subs = DOMAIN io_tasks_)
  /\ [][(ret'.op = "WatchFileDescriptor" /\ ret'.res # kTaskIdNull) =>
          (/\ ret'.res \notin (DOMAIN io_tasks_) \cup (DOMAIN subs)
           /\ DOMAIN io_tasks_' = (DOMAIN io_tasks_) \cup {ret'.res}
           /\ DOMAIN subs' = (DOMAIN subs) \cup {ret'.res}
           /\ subs'[ret'.res] = GoodFd)]_vars
  /\ [][(ret'.op = "CancelTask" /\ ret'.res /\ ret'.task_id \in DOMAIN io_tasks_) =>
          (/\ DOMAIN io_tasks_' = (DOMAIN io_tasks_) \ {ret'.task_id}
           /\ DOMAIN subs' = (DOMAIN subs) \ {ret'.task_id})]_vars
  /\ [][(/\ ret'.op = "OnFileReady"
         /\ ret'.task_id \in DOMAIN io_tasks_
         /\ ~io_tasks_[ret'.task_id].persistent) =>
          (/\ DOMAIN io_tasks_' = (DOMAIN io_tasks_) \ {ret'.task_id}
           /\ DOMAIN subs' = (DOMAIN subs) \ {ret'.task_id})]_vars
  /\ [][(ret'.op = "WatchFileDescriptor" /\ ret'.why = "refused") =>
          UNCHANGED <<io_tasks_, subs>>]_vars

\* C23 witness: the closure of a one-shot watch that has fired is running, its id in
\* neither the store nor the subscriptions, a WatchFileDescriptor it made has just been
\* refused by the base loop, and another watch is registered and subscribed.
C23_Witness ==
  /\ cur.kind = "io"
  /\ ~cur.persistent
  /\ cur.id \notin (DOMAIN io_tasks_) \cup (DOMAIN subs)
  /\ ret.op = "WatchFileDescriptor"
  /\ ret.why = "refused"
  /\ io_tasks_ # EmptyMap
  /\ DOMAIN subs = DOMAIN io_tasks_

\* C23, the cancel case: a running closure has canceled a watch, which left the store
\* and the subscriptions, another watch staying in both.
C23_CancelWitness ==
  /\ cur.kind # "none"
  /\ ret.op = "CancelTask"
  /\ ret.res
  /\ ret.closure \in Registered("persistent") \cup Registered("oneshot")
  /\ ret.task_id \notin (DOMAIN io_tasks_) \cup (DOMAIN subs)
  /\ io_tasks_ # EmptyMap
  /\ DOMAIN subs = DOMAIN io_tasks_

====
